---- MODULE Spec2Model ----
(***************************************************************************)
(* Model of the OCR batch utility (main.py, src/tesseract/run_tesseract.py) *)
(* and of the LLM extraction pipeline (src/llm/run_gptAPI.py).              *)
(*                                                                         *)
(* Text is a sequence of one-character strings.  Three specifications       *)
(* share the module: SpecJson (extract_first_json), SpecExcel               *)
(* (process_excel) and SpecOcr (process_file and what it calls).            *)
(***************************************************************************)
EXTENDS Integers, Sequences, FiniteSets, TLC

VARIABLES
    \* ---- extract_first_json called on one text (SpecJson)
    jpc,        \* "call" before the call, "returned" after it, "off" elsewhere
    jtext,      \* the argument
    jout,       \* the returned string
    \* ---- process_excel (SpecExcel)
    xpc,        \* "prepare", "pool", "done"; "off" elsewhere
    api_key,    \* whether OPENAI_API_KEY is set in the environment
    cpu_count,  \* os.cpu_count(), 0 for None
    max_row,    \* ws.max_row
    ws,         \* the worksheet in memory: <<row, column>> -> cell
    disk,       \* the worksheet of the file on disk
    xtasks,     \* tasks: sequence of [row, col, prompt]
    xfut,       \* the future of each task: [st, exc, val]
    api_calls,  \* requests sent to the completion API
    saves,      \* calls of wb.save
    \* ---- process_file (SpecOcr)
    opc,        \* "start", "pdf", "pool", "image", "done"; "off" elsewhere
    file_path,  \* the argument
    exists,     \* os.path.exists(file_path)
    ocr_mode,   \* the argument
    max_workers,\* the argument
    output_dir, \* get_output_directory(file_path), <<>> before it is computed
    branch,     \* the branch process_file called: "none", "pdf", "image"
    pages,      \* pages convert_from_path returned; -1 before, and when it failed
    otasks,     \* the work items: [image_input, page_info, file_prefix]
    ofut,       \* the call of process_single_image on each: [st, calls, exc, val]
    results,    \* the results list of process_pdf_parallel
    dir_made,   \* whether os.makedirs(output_dir) has succeeded
    files,      \* files written: set of [path, by]
    ret         \* what process_file returned: "pending", "None", "output_dir", "raised"

jvars == <<jpc, jtext, jout>>
xvars == <<xpc, api_key, cpu_count, max_row, ws, disk, xtasks, xfut, api_calls, saves>>
ovars == <<opc, file_path, exists, ocr_mode, max_workers, output_dir, branch, pages,
           otasks, ofut, results, dir_made, files, ret>>
vars == <<jvars, xvars, ovars>>

(***************************************************************************)
(* Characters and strings                                                  *)
(***************************************************************************)
\* the backquote character, which a TLA+ string cannot hold
BQ == "BACKQUOTE"
DQ == "\""
NL == "\n"

Uppers == <<"A","B","C","D","E","F","G","H","I","J","K","L","M",
            "N","O","P","Q","R","S","T","U","V","W","X","Y","Z">>
Lowers == <<"a","b","c","d","e","f","g","h","i","j","k","l","m",
            "n","o","p","q","r","s","t","u","v","w","x","y","z">>

\* str.lower() on one character
LowerChar(c) ==
    IF \E k \in 1..26 : Uppers[k] = c
    THEN Lowers[CHOOSE k \in 1..26 : Uppers[k] = c]
    ELSE c

\* str.lower()
Lower(s) == [k \in 1..Len(s) |-> LowerChar(s[k])]

\* str.endswith(suffix)
EndsWith(s, suffix) ==
    /\ Len(s) >= Len(suffix)
    /\ SubSeq(s, Len(s) - Len(suffix) + 1, Len(s)) = suffix

\* s[i:i+len(w)] == w  (1-based i)
MatchAt(s, i, w) ==
    /\ i + Len(w) - 1 <= Len(s)
    /\ SubSeq(s, i, i + Len(w) - 1) = w

\* whitespace as the regex \s, str.strip() and the json scanner see it
IsSpace(c) == c \in {" ", NL}

\* index of the first non-space character at or after i (Len(s)+1 if none)
RECURSIVE SkipSpace(_, _)
SkipSpace(s, i) ==
    IF i <= Len(s) /\ IsSpace(s[i]) THEN SkipSpace(s, i + 1) ELSE i

\* index of the last non-space character at or before i (0 if none)
RECURSIVE SkipSpaceBack(_, _)
SkipSpaceBack(s, i) ==
    IF i >= 1 /\ IsSpace(s[i]) THEN SkipSpaceBack(s, i - 1) ELSE i

\* str.strip()
Strip(s) == SubSeq(s, SkipSpace(s, 1), SkipSpaceBack(s, Len(s)))

(***************************************************************************)
(* json.loads / json.dumps on the characters the model uses: objects,      *)
(* strings without escapes, non-negative integers, blanks and newlines.    *)
(* A parsed value is [t |-> "int", digits], [t |-> "str", chars] or        *)
(* [t |-> "obj", members] with members a sequence of [k, v].               *)
(***************************************************************************)
Digits == {"0", "1", "2", "3", "4", "5", "6", "7", "8", "9"}

NoValue == [t |-> "none"]
ParseFail == [ok |-> FALSE, next |-> 0, val |-> NoValue]
ParseOk(n, v) == [ok |-> TRUE, next |-> n, val |-> v]

\* end of a string body: the closing quote, 0 on a control character or none
RECURSIVE StringEnd(_, _)
StringEnd(s, j) ==
    IF j > Len(s) THEN 0
    ELSE IF s[j] = DQ THEN j
    ELSE IF s[j] = NL THEN 0
    ELSE StringEnd(s, j + 1)

\* a string starting at the quote s[i]
ParseString(s, i) ==
    LET j == StringEnd(s, i + 1)
    IN  IF j = 0 THEN ParseFail
        ELSE ParseOk(j + 1, [t |-> "str", chars |-> SubSeq(s, i + 1, j - 1)])

\* end (exclusive) of the run of digits starting at i
RECURSIVE DigitsEnd(_, _)
DigitsEnd(s, i) ==
    IF i <= Len(s) /\ s[i] \in Digits THEN DigitsEnd(s, i + 1) ELSE i

\* an integer starting at the digit s[i]: 0 | [1-9][0-9]*
ParseNumber(s, i) ==
    LET e == IF s[i] = "0" THEN i + 1 ELSE DigitsEnd(s, i)
    IN  ParseOk(e, [t |-> "int", digits |-> SubSeq(s, i, e - 1)])

\* dict(pairs): a repeated key keeps its first place and takes the last value
PutMember(members, key, v) ==
    IF \E k \in 1..Len(members) : members[k].k = key
    THEN [k \in 1..Len(members) |->
            IF members[k].k = key THEN [k |-> key, v |-> v] ELSE members[k]]
    ELSE Append(members, [k |-> key, v |-> v])

RECURSIVE ParseValue(_, _)
RECURSIVE ParseMembers(_, _, _)

\* the members of an object, from the quote s[i] that opens a key
ParseMembers(s, i, acc) ==
    LET key == ParseString(s, i)
    IN  IF ~key.ok THEN ParseFail
        ELSE LET c == SkipSpace(s, key.next)
             IN  IF c > Len(s) \/ s[c] # ":" THEN ParseFail
                 ELSE LET v == ParseValue(s, SkipSpace(s, c + 1))
                      IN  IF ~v.ok THEN ParseFail
                          ELSE LET e == SkipSpace(s, v.next)
                                   acc2 == PutMember(acc, key.val.chars, v.val)
                               IN  IF e > Len(s) THEN ParseFail
                                   ELSE IF s[e] = "}"
                                        THEN ParseOk(e + 1, [t |-> "obj", members |-> acc2])
                                   ELSE IF s[e] # "," THEN ParseFail
                                   ELSE LET n == SkipSpace(s, e + 1)
                                        IN  IF n > Len(s) \/ s[n] # DQ THEN ParseFail
                                            ELSE ParseMembers(s, n, acc2)

\* an object starting at the brace s[i]
ParseObject(s, i) ==
    LET j == SkipSpace(s, i + 1)
    IN  IF j > Len(s) THEN ParseFail
        ELSE IF s[j] = "}" THEN ParseOk(j + 1, [t |-> "obj", members |-> <<>>])
        ELSE IF s[j] # DQ THEN ParseFail
        ELSE ParseMembers(s, j, <<>>)

\* the scanner's scan_once
ParseValue(s, i) ==
    IF i > Len(s) THEN ParseFail
    ELSE IF s[i] = DQ THEN ParseString(s, i)
    ELSE IF s[i] = "{" THEN ParseObject(s, i)
    ELSE IF s[i] \in Digits THEN ParseNumber(s, i)
    ELSE ParseFail

\* json.loads: one value, blanks around it, nothing else
Loads(s) ==
    LET r == ParseValue(s, SkipSpace(s, 1))
    IN  IF r.ok /\ SkipSpace(s, r.next) = Len(s) + 1 THEN r ELSE ParseFail

RECURSIVE Dumps(_)
RECURSIVE DumpMembers(_, _)

\* the members from the k-th on, joined by ", "
DumpMembers(members, k) ==
    IF k > Len(members) THEN <<>>
    ELSE (IF k > 1 THEN <<",", " ">> ELSE <<>>)
         \o <<DQ>> \o members[k].k \o <<DQ, ":", " ">>
         \o Dumps(members[k].v)
         \o DumpMembers(members, k + 1)

\* json.dumps(value, ensure_ascii=False): the default ", " and ": " separators
Dumps(v) ==
    IF v.t = "int" THEN v.digits
    ELSE IF v.t = "str" THEN <<DQ>> \o v.chars \o <<DQ>>
    ELSE <<"{">> \o DumpMembers(v.members, 1) \o <<"}">>

(***************************************************************************)
(* extract_first_json                                                      *)
(***************************************************************************)
Fence == <<BQ, BQ, BQ>>
JsonLabel == <<"j", "s", "o", "n">>
NoMatch == [found |-> FALSE, group |-> <<>>]

\* index of the first fence at or after i, 0 if none
RECURSIVE FindFence(_, _)
FindFence(s, i) ==
    IF i > Len(s) THEN 0
    ELSE IF MatchAt(s, i, Fence) THEN i
    ELSE FindFence(s, i + 1)

\* the pattern (fence, optional json label, blanks, lazy group, fence) tried
\* at the fence s[i..i+2], the label matched without regard to case
MatchFenceAt(s, i) ==
    LET p == IF i + 6 <= Len(s) /\ Lower(SubSeq(s, i + 3, i + 6)) = JsonLabel
             THEN i + 7 ELSE i + 3
        q == SkipSpace(s, p)
        j == FindFence(s, q)
    IN  IF j = 0 THEN NoMatch
        ELSE [found |-> TRUE, group |-> SubSeq(s, q, j - 1)]

\* re.search: the leftmost position where the pattern matches
RECURSIVE SearchFence(_, _)
SearchFence(s, i) ==
    LET f == FindFence(s, i)
    IN  IF f = 0 THEN NoMatch
        ELSE LET m == MatchFenceAt(s, f)
             IN  IF m.found THEN m ELSE SearchFence(s, f + 1)

\* the loop over the characters: depth is len(brace_stack), start is
\* start_idx (0 for -1)
RECURSIVE BraceScan(_, _, _, _)
BraceScan(s, idx, depth, start) ==
    IF idx > Len(s) THEN <<>>
    ELSE IF s[idx] = "{"
         THEN BraceScan(s, idx + 1, depth + 1, IF depth = 0 THEN idx ELSE start)
    ELSE IF s[idx] = "}" /\ depth > 0
         THEN IF depth - 1 = 0 /\ start # 0
              THEN LET r == Loads(SubSeq(s, start, idx))
                   IN  IF r.ok THEN Dumps(r.val)
                       ELSE BraceScan(s, idx + 1, 0, 0)
              ELSE BraceScan(s, idx + 1, depth - 1, start)
    ELSE BraceScan(s, idx + 1, depth, start)

extract_first_json(s) ==
    IF s = <<>> THEN <<>>
    ELSE LET m == SearchFence(s, 1)
             r == IF m.found THEN Loads(Strip(m.group)) ELSE ParseFail
         IN  IF r.ok THEN Dumps(r.val) ELSE BraceScan(s, 1, 0, 0)

(***************************************************************************)
(* SpecJson: extract_first_json applied to every text built from at most   *)
(* MaxSegs of the pieces below.                                            *)
(***************************************************************************)
MaxSegs == 5

Pieces ==
    { Fence, JsonLabel, <<"J", "S", "o", "n">>, <<"{">>, <<"}">>,
      <<DQ, "k", DQ, ":">>, <<"1">>, <<",">>, <<" ">>, <<"p">> }

RECURSIVE TextsOf(_)
TextsOf(n) ==
    IF n = 0 THEN { <<>> }
    ELSE LET shorter == TextsOf(n - 1)
         IN  shorter \cup { t \o p : t \in shorter, p \in Pieces }

JsonOff == jpc = "off" /\ jtext = <<>> /\ jout = <<>>

ExcelOff ==
    /\ xpc = "off" /\ api_key = FALSE /\ cpu_count = 0 /\ max_row = 1
    /\ ws = <<>> /\ disk = <<>> /\ xtasks = <<>> /\ xfut = <<>>
    /\ api_calls = 0 /\ saves = 0

OcrOff ==
    /\ opc = "off" /\ file_path = <<>> /\ exists = FALSE /\ ocr_mode = ""
    /\ max_workers = 1 /\ output_dir = <<>> /\ branch = "none" /\ pages = -1
    /\ otasks = <<>> /\ ofut = <<>> /\ results = <<>> /\ dir_made = FALSE
    /\ files = {} /\ ret = "pending"

JsonInit ==
    /\ jpc = "call"
    /\ jtext \in TextsOf(MaxSegs)
    /\ jout = <<>>
    /\ ExcelOff
    /\ OcrOff

JsonCall ==
    /\ jpc = "call"
    /\ jout' = extract_first_json(jtext)
    /\ jpc' = "returned"
    /\ UNCHANGED <<jtext, xvars, ovars>>

JsonNext == JsonCall

SpecJson == JsonInit /\ [][JsonNext]_vars

(***************************************************************************)
(* process_excel                                                           *)
(***************************************************************************)
\* a cell value: None or a string
NoneCell == [isNone |-> TRUE, s |-> <<>>]
StrCell(s) == [isNone |-> FALSE, s |-> s]

\* instruction, then "\n\n원문:\n", as one opaque piece of text
PromptHead == <<"INSTRUCTION", NL, NL, "SOURCE:", NL>>

\* str(value).strip() if value is not None else ""
CellText(cell) == IF cell.isNone THEN <<>> ELSE Strip(cell.s)

\* the tasks of one row: B -> C first, then D -> E
RowTasks(sheet, row) ==
    LET b_text == CellText(sheet[<<row, 2>>])
        d_text == CellText(sheet[<<row, 4>>])
    IN  (IF b_text # <<>>
         THEN << [row |-> row, col |-> 3, prompt |-> PromptHead \o b_text] >>
         ELSE <<>>)
        \o
        (IF d_text # <<>>
         THEN << [row |-> row, col |-> 5, prompt |-> PromptHead \o d_text] >>
         ELSE <<>>)

\* the loop over range(2, ws.max_row + 1)
RECURSIVE PrepareTasks(_, _, _)
PrepareTasks(sheet, row, last) ==
    IF row > last THEN <<>>
    ELSE RowTasks(sheet, row) \o PrepareTasks(sheet, row + 1, last)

\* mutant: every result goes to column C
future_to_cell_one_column(tasks, t) == <<tasks[t].row, 3>>

\* future_to_cell[future] for the future of task t
future_to_cell(tasks, t) == <<tasks[t].row, tasks[t].col>>

\* max(4, (os.cpu_count() or 4))
PoolSize(cpus) ==
    LET n == IF cpus = 0 THEN 4 ELSE cpus
    IN  IF n > 4 THEN n ELSE 4

\* str(e) of the RuntimeError of load_api_key and of an API failure
MissingKeyMsg == <<"missing ", "OPENAI_API_KEY">>
ApiErrorMsg == <<"api ", "failure">>
ErrorPrefix == <<"ERROR: ">>

\* what the completion API may answer: message.content or ""
Responses ==
    { <<"p", " ", "{", DQ, "k", DQ, ":", "1", "}", " ", "p">>,
      <<"p">> }

Returned(text) == [exc |-> FALSE, val |-> text]
Raised(msg) == [exc |-> TRUE, val |-> msg]

\* mutant: the request is sent without a key
run_gpt5_no_key_check(key, prompt) ==
    { [out |-> Raised(ApiErrorMsg), calls |-> 1] }
    \cup { [out |-> Returned(r), calls |-> 1] : r \in Responses }

\* run_gpt5(prompt): every way the call can end, with the requests it sent
run_gpt5(key, prompt) ==
    IF ~key
    THEN { [out |-> Raised(MissingKeyMsg), calls |-> 0] }
    ELSE { [out |-> Raised(ApiErrorMsg), calls |-> 1] }
         \cup { [out |-> Returned(r), calls |-> 1] : r \in Responses }

\* the value the collecting loop assigns for a finished future
CellValue(out) ==
    IF out.exc THEN StrCell(ErrorPrefix \o out.val)
    ELSE StrCell(extract_first_json(out.val))

Queued == [st |-> "queued", exc |-> FALSE, val |-> <<>>]

NumRunning == Cardinality({t \in 1..Len(xfut) : xfut[t].st = "running"})

\* mutant: the pool is left as soon as the workers are through
LoopFinishedEarly(futs) ==
    \A t \in 1..Len(futs) : futs[t].st \in {"done", "collected"}

\* the loop over as_completed ends, and the with block after it, when every
\* future has been yielded (at once when there is no task)
LoopFinished(futs) == \A t \in 1..Len(futs) : futs[t].st = "collected"

\* load_workbook, the preparation loop and the submission of every task
XPrepare ==
    /\ xpc = "prepare"
    /\ xtasks' = PrepareTasks(ws, 2, max_row)
    /\ xfut' = [t \in 1..Len(xtasks') |-> Queued]
    /\ xpc' = "pool"
    /\ UNCHANGED <<api_key, cpu_count, max_row, ws, disk, api_calls, saves>>

\* a free worker thread takes the oldest queued task
XWorkerStart(t) ==
    /\ xpc = "pool"
    /\ xfut[t].st = "queued"
    /\ \A u \in 1..(t - 1) : xfut[u].st # "queued"
    /\ NumRunning < PoolSize(cpu_count)
    /\ xfut' = [xfut EXCEPT ![t].st = "running"]
    /\ UNCHANGED <<xpc, api_key, cpu_count, max_row, ws, disk, xtasks, api_calls, saves>>

\* the worker thread runs run_gpt5(prompt) to its end
XWorkerRun(t) ==
    /\ xpc = "pool"
    /\ xfut[t].st = "running"
    /\ \E r \in run_gpt5(api_key, xtasks[t].prompt) :
          /\ xfut' = [xfut EXCEPT ![t] = [st |-> "done", exc |-> r.out.exc, val |-> r.out.val]]
          /\ api_calls' = api_calls + r.calls
    /\ UNCHANGED <<xpc, api_key, cpu_count, max_row, ws, disk, xtasks, saves>>

\* one iteration of the loop over as_completed, in the submitting thread
XCollect(t) ==
    /\ xpc = "pool"
    /\ xfut[t].st = "done"
    /\ ws' = [ws EXCEPT ![future_to_cell(xtasks, t)] = CellValue(xfut[t])]
    /\ xfut' = [xfut EXCEPT ![t].st = "collected"]
    /\ UNCHANGED <<xpc, api_key, cpu_count, max_row, disk, xtasks, api_calls, saves>>

\* wb.save(filename=file_path)
XSave ==
    /\ xpc = "pool"
    /\ LoopFinished(xfut)
    /\ disk' = ws
    /\ saves' = saves + 1
    /\ xpc' = "done"
    /\ UNCHANGED <<api_key, cpu_count, max_row, ws, xtasks, xfut, api_calls>>

(***************************************************************************)
(* SpecExcel: process_excel on every sheet of at most MaxRow rows whose    *)
(* source cells are empty, blank or text, with and without an API key.     *)
(***************************************************************************)
MaxRow == 3

SourceCells == { NoneCell, StrCell(<<" ">>), StrCell(<<"t", " ">>) }
CpuCounts == {0, 5}

Sheets(rows) ==
    { sh \in [ (2..rows) \X {2, 3, 4, 5} -> SourceCells ] :
        \A row \in 2..rows : sh[<<row, 3>>] = NoneCell /\ sh[<<row, 5>>] = NoneCell }

ExcelInit ==
    /\ xpc = "prepare"
    /\ api_key \in BOOLEAN
    /\ cpu_count \in CpuCounts
    /\ max_row \in 1..MaxRow
    /\ ws \in Sheets(max_row)
    /\ disk = ws
    /\ xtasks = <<>>
    /\ xfut = <<>>
    /\ api_calls = 0
    /\ saves = 0
    /\ JsonOff
    /\ OcrOff

ExcelNext ==
    \/ XPrepare /\ UNCHANGED <<jvars, ovars>>
    \/ (\E t \in 1..Len(xfut) : XWorkerStart(t)) /\ UNCHANGED <<jvars, ovars>>
    \/ (\E t \in 1..Len(xfut) : XWorkerRun(t)) /\ UNCHANGED <<jvars, ovars>>
    \/ (\E t \in 1..Len(xfut) : XCollect(t)) /\ UNCHANGED <<jvars, ovars>>
    \/ XSave /\ UNCHANGED <<jvars, ovars>>

SpecExcel == ExcelInit /\ [][ExcelNext]_vars

(***************************************************************************)
(* main.py: names and classification                                       *)
(***************************************************************************)
\* index of the last occurrence of c in s, 0 if none
RECURSIVE LastIndex(_, _, _)
LastIndex(s, c, i) ==
    IF i = 0 THEN 0 ELSE IF s[i] = c THEN i ELSE LastIndex(s, c, i - 1)

\* os.path.basename
Basename(path) == SubSeq(path, LastIndex(path, "/", Len(path)) + 1, Len(path))

\* os.path.splitext(name)[0]: cut at the last dot, unless only dots precede it
SplitextStem(name) ==
    LET d == LastIndex(name, ".", Len(name))
    IN  IF d = 0 \/ \A k \in 1..(d - 1) : name[k] = "." THEN name
        ELSE SubSeq(name, 1, d - 1)

\* os.path.join(dir, name)
PathJoin(dir, name) == dir \o <<"/">> \o name

\* datetime.now().strftime("%y%m%d_%H%M%S"), one opaque piece of text
Timestamp == "YYMMDD_HHMMSS"

get_output_directory(path) ==
    PathJoin(<<"test_result">>, <<Timestamp, "_">> \o SplitextStem(Basename(path)))

\* mutant: the extension is compared as written
is_pdf_file_case_sensitive(path) == EndsWith(path, <<".", "p", "d", "f">>)

is_pdf_file(path) == EndsWith(Lower(path), <<".", "p", "d", "f">>)

image_extensions ==
    << <<".", "p", "n", "g">>, <<".", "j", "p", "g">>, <<".", "j", "p", "e", "g">>,
       <<".", "b", "m", "p">>, <<".", "t", "i", "f", "f">>, <<".", "t", "i", "f">> >>

is_image_file(path) ==
    \E k \in 1..Len(image_extensions) : EndsWith(Lower(path), image_extensions[k])

DigitChars == <<"0", "1", "2", "3", "4", "5", "6", "7", "8", "9">>

\* str(n) for n >= 0
RECURSIVE Decimal(_)
Decimal(n) ==
    IF n < 10 THEN <<DigitChars[n + 1]>>
    ELSE Decimal(n \div 10) \o <<DigitChars[(n % 10) + 1]>>

\* zero fill on the left to a minimum width
RECURSIVE ZeroPad(_, _)
ZeroPad(s, width) == IF Len(s) >= width THEN s ELSE ZeroPad(<<"0">> \o s, width)

\* mutant: the page number without padding
file_prefix_unpadded(idx) == <<"p", "a", "g", "e", "_">> \o Decimal(idx)

\* f"page_{idx:03d}"
file_prefix_of(idx) == <<"p", "a", "g", "e", "_">> \o ZeroPad(Decimal(idx), 3)

\* f"페이지 {idx}", the word as one opaque piece of text
page_info_of(idx) == <<"PAGE", " ">> \o Decimal(idx)

(***************************************************************************)
(* run_tesseract.py: process_single_image                                  *)
(***************************************************************************)
\* str.replace(old, new): every occurrence, left to right
RECURSIVE ReplaceAll(_, _, _, _)
ReplaceAll(s, i, old, new) ==
    IF i > Len(s) THEN <<>>
    ELSE IF MatchAt(s, i, old) THEN new \o ReplaceAll(s, i + Len(old), old, new)
    ELSE <<s[i]>> \o ReplaceAll(s, i + 1, old, new)

PageImage(i) == [isPath |-> FALSE, page |-> i, path |-> <<>>]
PathImage(path) == [isPath |-> TRUE, page |-> 0, path |-> path]

\* the step of the call that fails, "none" when none does; only a path is
\* decoded
Faults(image_input) ==
    {"makedirs", "enhance", "ocr", "save", "none"}
    \cup (IF image_input.isPath THEN {"decode"} ELSE {})

\* str(e) of what each step raises
FaultMsg(fault) == <<fault, " failed">>
UnsupportedMsg(mode) == <<"unsupported OCR mode: ", mode>>

SuccessDict(output_file, processed, info) ==
    [success |-> TRUE, output_file |-> output_file,
     processed_image |-> processed, page_info |-> info]
FailureDict(msg, info) == [success |-> FALSE, error |-> msg, page_info |-> info]

\* the try block: the dict it returns and the files it has opened for writing
TryBlock(image_input, dir, mode, info, prefix, fault) ==
    LET failed(msg, written) ==
            [exc |-> FALSE, val |-> FailureDict(msg, info), files |-> written]
        processed == PathJoin(dir, prefix \o <<"_processed.png">>)
    IN  IF image_input.isPath /\ fault = "decode" THEN failed(FaultMsg(fault), {})
        ELSE IF fault = "enhance" THEN failed(FaultMsg(fault), {})
        ELSE IF mode = "image_to_string"
        THEN LET output_file == PathJoin(dir, prefix \o <<"_string", ".", "t", "x", "t">>)
             IN  IF fault = "ocr" THEN failed(FaultMsg(fault), {})
                 ELSE IF fault = "save" THEN failed(FaultMsg(fault), {output_file})
                 ELSE [exc |-> FALSE,
                       val |-> SuccessDict(output_file, processed, info),
                       files |-> {output_file, processed}]
        ELSE IF mode = "image_to_data"
        THEN LET output_file == PathJoin(dir, prefix \o <<"_data", ".", "t", "x", "t">>)
                 json_file == ReplaceAll(output_file, 1, <<".", "t", "x", "t">>,
                                         <<"_data.json">>)
             IN  IF fault = "ocr" THEN failed(FaultMsg(fault), {})
                 ELSE IF fault = "save" THEN failed(FaultMsg(fault), {json_file})
                 ELSE [exc |-> FALSE,
                       val |-> SuccessDict(output_file, processed, info),
                       files |-> {json_file, output_file, processed}]
        ELSE failed(UnsupportedMsg(mode), {})

\* mutant: an unsupported mode is raised to the caller
process_single_image_mode_raises(image_input, dir, mode, info, prefix, fault) ==
    IF fault = "makedirs" \/ mode \notin {"image_to_string", "image_to_data"}
    THEN [exc |-> TRUE, val |-> FaultMsg(fault), files |-> {}]
    ELSE TryBlock(image_input, dir, mode, info, prefix, fault)

\* process_single_image: os.makedirs before the try block, then the try block
process_single_image(image_input, dir, mode, info, prefix, fault) ==
    IF fault = "makedirs"
    THEN [exc |-> TRUE, val |-> FaultMsg(fault), files |-> {}]
    ELSE TryBlock(image_input, dir, mode, info, prefix, fault)

(***************************************************************************)
(* main.py: process_pdf_parallel, process_image_file, process_file         *)
(***************************************************************************)
\* the keys the success branch reads, in the order of the print calls;
\* result.get('boxed_image') raises nothing
KeysRead == <<"output_file", "original_image", "processed_image">>

\* the first of those keys the dict lacks, "" if it has them all
RECURSIVE MissingKey(_, _)
MissingKey(dict, k) ==
    IF k > Len(KeysRead) THEN ""
    ELSE IF KeysRead[k] \notin DOMAIN dict THEN KeysRead[k]
    ELSE MissingKey(dict, k + 1)

\* str(KeyError(key))
KeyErrorMsg(key) == <<"'", key, "'">>

\* mutant: a future that raised leaves no entry
collected_drops_exceptions(out, info) ==
    IF out.exc THEN <<>> ELSE <<out.val>>

\* one iteration of the loop over as_completed: what it appends to results
collected(out, info) ==
    IF out.exc THEN << FailureDict(out.val, info) >>
    ELSE IF out.val.success /\ MissingKey(out.val, 1) # ""
         THEN << FailureDict(KeyErrorMsg(MissingKey(out.val, 1)), info) >>
    ELSE << out.val >>

\* sum(1 for r in results if r['success'])
success_count(rs) == Cardinality({k \in 1..Len(rs) : rs[k].success})

\* what process_image_file does with the outcome of its one call
image_file_return(out) ==
    IF out.exc THEN "raised"
    ELSE IF out.val.success
         THEN IF MissingKey(out.val, 1) # "" THEN "raised" ELSE "output_dir"
    ELSE "None"

NotRun == [st |-> "queued", calls |-> 0, exc |-> FALSE, val |-> <<>>]

ORunning == Cardinality({t \in 1..Len(ofut) : ofut[t].st = "running"})

\* process_file up to the call of a branch
OStart ==
    /\ opc = "start"
    /\ IF ~exists
       THEN /\ ret' = "None" /\ opc' = "done"
            /\ UNCHANGED <<output_dir, branch>>
       ELSE /\ output_dir' = get_output_directory(file_path)
            /\ IF is_pdf_file(file_path)
               THEN branch' = "pdf" /\ opc' = "pdf" /\ ret' = ret
               ELSE IF is_image_file(file_path)
               THEN branch' = "image" /\ opc' = "image" /\ ret' = ret
               ELSE branch' = "none" /\ opc' = "done" /\ ret' = "None"
    /\ UNCHANGED <<file_path, exists, ocr_mode, max_workers, pages, otasks, ofut,
                   results, dir_made, files>>

\* process_pdf_parallel: rasterization fails
OConvertFails ==
    /\ opc = "pdf"
    /\ ret' = "None"
    /\ opc' = "done"
    /\ UNCHANGED <<file_path, exists, ocr_mode, max_workers, output_dir, branch,
                   pages, otasks, ofut, results, dir_made, files>>

\* process_pdf_parallel: rasterization gives n pages; the tasks are built and
\* all submitted
OSubmit(n) ==
    /\ opc = "pdf"
    /\ pages' = n
    /\ otasks' = [i \in 1..n |-> [image_input |-> PageImage(i),
                                   page_info |-> page_info_of(i),
                                   file_prefix |-> file_prefix_of(i)]]
    /\ ofut' = [i \in 1..n |-> NotRun]
    /\ opc' = "pool"
    /\ UNCHANGED <<file_path, exists, ocr_mode, max_workers, output_dir, branch,
                   results, dir_made, files, ret>>

\* a free worker thread takes the oldest queued task
OWorkerStart(t) ==
    /\ opc = "pool"
    /\ ofut[t].st = "queued"
    /\ \A u \in 1..(t - 1) : ofut[u].st # "queued"
    /\ ORunning < max_workers
    /\ ofut' = [ofut EXCEPT ![t].st = "running"]
    /\ UNCHANGED <<opc, file_path, exists, ocr_mode, max_workers, output_dir, branch,
                   pages, otasks, results, dir_made, files, ret>>

\* the worker thread runs process_single_image(*task) to its end
OWorkerRun(t) ==
    /\ opc = "pool"
    /\ ofut[t].st = "running"
    /\ \E fault \in Faults(otasks[t].image_input) :
          LET out == process_single_image(otasks[t].image_input, output_dir, ocr_mode,
                                          otasks[t].page_info, otasks[t].file_prefix,
                                          fault)
          IN  /\ ofut' = [ofut EXCEPT ![t] = [st |-> "done", calls |-> @.calls + 1,
                                              exc |-> out.exc, val |-> out.val]]
              /\ files' = files \cup { [path |-> f, by |-> t] : f \in out.files }
              /\ dir_made' = (dir_made \/ fault # "makedirs")
    /\ UNCHANGED <<opc, file_path, exists, ocr_mode, max_workers, output_dir, branch,
                   pages, otasks, results, ret>>

\* one iteration of the loop over as_completed
OCollect(t) ==
    /\ opc = "pool"
    /\ ofut[t].st = "done"
    /\ results' = results \o collected(ofut[t], otasks[t].page_info)
    /\ ofut' = [ofut EXCEPT ![t].st = "collected"]
    /\ UNCHANGED <<opc, file_path, exists, ocr_mode, max_workers, output_dir, branch,
                   pages, otasks, dir_made, files, ret>>

\* the pool is left; the summary and the return
OFinish ==
    /\ opc = "pool"
    /\ \A t \in 1..Len(ofut) : ofut[t].st = "collected"
    /\ ret' = IF success_count(results) > 0 THEN "output_dir" ELSE "None"
    /\ opc' = "done"
    /\ UNCHANGED <<file_path, exists, ocr_mode, max_workers, output_dir, branch,
                   pages, otasks, ofut, results, dir_made, files>>

\* process_image_file: one work item, processed in the calling thread
OImage ==
    /\ opc = "image"
    /\ LET stem == SplitextStem(Basename(file_path))
           item == [image_input |-> PathImage(file_path), page_info |-> stem,
                    file_prefix |-> stem]
       IN  /\ otasks' = <<item>>
           /\ \E fault \in Faults(item.image_input) :
                 LET out == process_single_image(item.image_input, output_dir, ocr_mode,
                                                 item.page_info, item.file_prefix, fault)
                 IN  /\ ofut' = << [st |-> "done", calls |-> 1,
                                    exc |-> out.exc, val |-> out.val] >>
                     /\ files' = files \cup { [path |-> f, by |-> 1] : f \in out.files }
                     /\ dir_made' = (fault # "makedirs")
                     /\ ret' = image_file_return(out)
    /\ opc' = "done"
    /\ UNCHANGED <<file_path, exists, ocr_mode, max_workers, output_dir, branch,
                   pages, results>>

(***************************************************************************)
(* SpecOcr: process_file on the paths below, present or missing, in every  *)
(* OCR mode, for PDFs of at most MaxPages pages.                           *)
(***************************************************************************)
MaxPages == 3

Stems == { <<"a">>, <<"d", ".", "e", "/", "b">> }

Extensions ==
    { <<".", "p", "d", "f">>, <<".", "P", "d", "F">>,
      <<".", "p", "n", "g">>, <<".", "P", "N", "G">>, <<".", "j", "p", "g">>,
      <<".", "j", "p", "e", "g">>, <<".", "J", "p", "e", "G">>,
      <<".", "b", "m", "p">>, <<".", "t", "i", "f", "f">>, <<".", "t", "i", "f">>,
      <<".", "T", "i", "F">>,
      <<".", "t", "x", "t">>, <<".", "p", "d", "f", "x">>, <<"p", "d", "f">>,
      <<".", "g", "i", "f">>, <<".", "p", "n", "g", ".", "d", "o", "c">>, <<>> }

Modes == {"image_to_string", "image_to_data", "image_to_boxes"}
WorkerCounts == {1, 2}

OcrInit ==
    /\ opc = "start"
    /\ file_path \in { st \o ext : st \in Stems, ext \in Extensions }
    /\ exists \in BOOLEAN
    /\ ocr_mode \in Modes
    /\ max_workers \in WorkerCounts
    /\ output_dir = <<>>
    /\ branch = "none"
    /\ pages = -1
    /\ otasks = <<>>
    /\ ofut = <<>>
    /\ results = <<>>
    /\ dir_made = FALSE
    /\ files = {}
    /\ ret = "pending"
    /\ JsonOff
    /\ ExcelOff

OcrNext ==
    \/ OStart /\ UNCHANGED <<jvars, xvars>>
    \/ OConvertFails /\ UNCHANGED <<jvars, xvars>>
    \/ (\E n \in 0..MaxPages : OSubmit(n)) /\ UNCHANGED <<jvars, xvars>>
    \/ (\E t \in 1..Len(ofut) : OWorkerStart(t)) /\ UNCHANGED <<jvars, xvars>>
    \/ (\E t \in 1..Len(ofut) : OWorkerRun(t)) /\ UNCHANGED <<jvars, xvars>>
    \/ (\E t \in 1..Len(ofut) : OCollect(t)) /\ UNCHANGED <<jvars, xvars>>
    \/ OFinish /\ UNCHANGED <<jvars, xvars>>
    \/ OImage /\ UNCHANGED <<jvars, xvars>>

SpecOcr == OcrInit /\ [][OcrNext]_vars

(***************************************************************************)
(* C1 .. C6                                                                *)
(***************************************************************************)
Finished(t) == ofut[t].st \in {"done", "collected"}

\* the call on item t returned a success outcome
ReturnedSuccess(t) == Finished(t) /\ ~ofut[t].exc /\ ofut[t].val.success

PdfRun == branch = "pdf" /\ pages >= 0

\* C1: process_pdf_parallel returns the output directory exactly when some
\* page's call of process_single_image returned a success outcome; a batch
\* with a successful and a failed page keeps both in results; a batch in
\* which every page fails returns None.
C1_AsClaimed ==
    (opc = "done" /\ PdfRun) =>
        LET good == {t \in 1..Len(ofut) : ReturnedSuccess(t)}
            bad == {t \in 1..Len(ofut) : ~ReturnedSuccess(t)}
        IN  /\ ret = "output_dir" <=> good # {}
            /\ (good # {} /\ bad # {}) =>
                  /\ \E k \in 1..Len(results) : results[k].success
                  /\ \E k \in 1..Len(results) : ~results[k].success
            /\ good = {} => ret = "None"

\* the page number in three digits, for numbers below 1000
ThreeDigits(i) ==
    << DigitChars[(i \div 100) + 1], DigitChars[((i \div 10) % 10) + 1],
       DigitChars[(i % 10) + 1] >>

ExpectedPrefix(i) == <<"p", "a", "g", "e", "_">> \o ThreeDigits(i)

\* C2: a PDF of N pages gives exactly N work items, the i-th for page i with
\* label "page i" and prefix page_ and i in three digits; that holds in every
\* state of the pool, so under every completion order; no two items share a
\* prefix, no file is written by two workers, and every file a worker writes
\* carries its own prefix.
C2_PrefixesBySubmission ==
    PdfRun =>
        /\ Len(otasks) = pages
        /\ \A i \in 1..Len(otasks) :
              /\ otasks[i].image_input = PageImage(i)
              /\ otasks[i].page_info = <<"PAGE", " ">> \o Decimal(i)
              /\ otasks[i].file_prefix = ExpectedPrefix(i)
        /\ \A i \in 1..Len(otasks) : \A j \in 1..Len(otasks) :
              i # j => otasks[i].file_prefix # otasks[j].file_prefix
        /\ \A f \in files : \A g \in files : f.path = g.path => f.by = g.by
        /\ \A f \in files :
              MatchAt(f.path, 1, PathJoin(output_dir, ExpectedPrefix(f.by)) \o <<"_">>)
                 \/ MatchAt(f.path, 1, PathJoin(output_dir, ExpectedPrefix(f.by)))

\* a finished batch of three pages, all written, the last page collected first
C2_Witness ==
    /\ opc = "done" /\ PdfRun /\ pages >= 3
    /\ results[1].page_info = otasks[3].page_info
    /\ \A t \in 1..Len(ofut) : ReturnedSuccess(t)
    /\ \A t \in 1..Len(ofut) : \E f \in files : f.by = t

\* a dict with the label and the fields of its kind
WellFormed(dict, info) ==
    /\ dict.page_info = info
    /\ IF dict.success
       THEN {"output_file", "processed_image"} \subseteq DOMAIN dict
       ELSE "error" \in DOMAIN dict

\* C3 as claimed: process_single_image never raises, whatever step fails,
\* directory creation included; it returns a well-formed outcome.
C3_AsClaimed ==
    \A t \in 1..Len(ofut) :
        Finished(t) => ~ofut[t].exc /\ WellFormed(ofut[t].val, otasks[t].page_info)

\* C3 as amended: the only exception process_single_image lets out is the
\* failure of directory creation, raised before anything is written; for
\* every other failure (decode, enhancement, OCR, file writes) and for an
\* unsupported mode it returns a well-formed outcome with the item's label,
\* a failure one with the error text whenever the mode is unsupported (the
\* text of the decode or enhancement failure when that comes first).
C3_OnlyMakedirsPropagates ==
    \A t \in 1..Len(ofut) :
        Finished(t) =>
            IF ofut[t].exc
            THEN /\ ofut[t].val = FaultMsg("makedirs")
                 /\ \A f \in files : f.by # t
            ELSE /\ WellFormed(ofut[t].val, otasks[t].page_info)
                 /\ ocr_mode \notin {"image_to_string", "image_to_data"} =>
                       /\ ~ofut[t].val.success
                       /\ ofut[t].val.error \in
                             { FaultMsg("decode"), FaultMsg("enhance"),
                               UnsupportedMsg(ocr_mode) }
                 /\ ~ofut[t].val.success =>
                       ofut[t].val.error \in
                          { FaultMsg("decode"), FaultMsg("enhance"), FaultMsg("ocr"),
                            FaultMsg("save"), UnsupportedMsg(ocr_mode) }

\* one batch with a raised call, a returned failure and a returned success
C3_Witness ==
    /\ opc = "done" /\ PdfRun
    /\ \E t \in 1..Len(ofut) : ofut[t].exc
    /\ \E t \in 1..Len(ofut) : ~ofut[t].exc /\ ~ofut[t].val.success
    /\ \E t \in 1..Len(ofut) : ReturnedSuccess(t)

\* C4: process_file returns the output directory or None and never raises;
\* for an existing image file it returns the output directory when the work
\* item's outcome is a success and None when it is a failure.
C4_AsClaimed ==
    opc = "done" =>
        /\ ret \in {"None", "output_dir"}
        /\ (branch = "image" /\ ~ofut[1].exc) =>
              ret = (IF ofut[1].val.success THEN "output_dir" ELSE "None")

NumCollected == Cardinality({t \in 1..Len(ofut) : ofut[t].st = "collected"})

\* C5: every submitted page is processed at most once, exactly once when it
\* has finished; results holds exactly one outcome, with the page's label,
\* for each collected page and nothing else; the pool never blocks while
\* pages are left; at the end results holds one outcome per submitted page,
\* whatever failed or raised.
C5_OneOutcomePerPage ==
    PdfRun =>
        /\ \A t \in 1..Len(ofut) :
              /\ ofut[t].calls = (IF Finished(t) THEN 1 ELSE 0)
              /\ Cardinality({k \in 1..Len(results) :
                                 results[k].page_info = otasks[t].page_info})
                    = (IF ofut[t].st = "collected" THEN 1 ELSE 0)
        /\ Len(results) = NumCollected
        /\ opc = "pool" => ENABLED OcrNext
        /\ opc = "done" =>
              /\ Len(results) = pages
              /\ \A t \in 1..Len(ofut) : ofut[t].calls = 1

\* a finished batch in which one page raised, one failed and one succeeded
C5_Witness ==
    /\ opc = "done" /\ PdfRun /\ Len(results) >= 3
    /\ \E t \in 1..Len(ofut) : ofut[t].exc
    /\ \E t \in 1..Len(ofut) : ~ofut[t].exc /\ ~ofut[t].val.success
    /\ \E t \in 1..Len(ofut) : ReturnedSuccess(t)
    /\ ofut[1].exc

\* the upper-case form of a lower-case letter, the character itself otherwise
UpperOf(c) ==
    IF \E k \in 1..26 : Lowers[k] = c
    THEN Uppers[CHOOSE k \in 1..26 : Lowers[k] = c]
    ELSE c

\* s ends in ext, written in any mix of cases
EndsInAnyCase(s, ext) ==
    /\ Len(s) >= Len(ext)
    /\ \A k \in 1..Len(ext) : s[Len(s) - Len(ext) + k] \in {ext[k], UpperOf(ext[k])}

ImageEndings ==
    { <<".", "p", "n", "g">>, <<".", "j", "p", "g">>, <<".", "j", "p", "e", "g">>,
      <<".", "b", "m", "p">>, <<".", "t", "i", "f", "f">>, <<".", "t", "i", "f">> }

NothingInvoked ==
    /\ branch = "none" /\ ret = "None" /\ opc = "done"
    /\ pages = -1 /\ otasks = <<>> /\ ofut = <<>> /\ ~dir_made /\ files = {}

\* C6: a missing path returns None before any classification; an existing
\* path ending in .pdf, in any case, takes the PDF branch; one ending in
\* .png, .jpg, .jpeg, .bmp, .tiff or .tif takes the single-image branch, with
\* no rasterization; any other returns None with no branch invoked, nothing
\* rasterized, no work item and no directory made.
C6_ClassifiedByExtension ==
    opc \notin {"off", "start"} =>
        IF ~exists THEN NothingInvoked /\ output_dir = <<>>
        ELSE IF EndsInAnyCase(file_path, <<".", "p", "d", "f">>) THEN branch = "pdf"
        ELSE IF \E e \in ImageEndings : EndsInAnyCase(file_path, e)
             THEN branch = "image" /\ pages = -1 /\ Len(otasks) <= 1
        ELSE NothingInvoked

\* an existing file with an upper-case PDF extension, processed as a PDF
C6_Witness ==
    /\ opc = "done" /\ exists /\ branch = "pdf" /\ pages >= 1
    /\ EndsWith(file_path, <<".", "P", "d", "F">>)

(***************************************************************************)
(* C7, C8, C9                                                              *)
(***************************************************************************)
TaskIds == 1..Len(xtasks)
TargetOf(t) == <<xtasks[t].row, xtasks[t].col>>

\* what the cell of a finished task is to hold
OwnResult(t) ==
    IF xfut[t].exc THEN ErrorPrefix \o xfut[t].val
    ELSE extract_first_json(xfut[t].val)

\* C7: each (row, target column) pair belongs to exactly one task; the cell
\* of every collected task holds that task's own result (the JSON extracted
\* from its response or "ERROR: <message>"), whatever the order of
\* completion; every other cell is as it was loaded; at the end every task's
\* cell is written, whether or not other tasks raised.
C7_CellsHoldOwnResult ==
    /\ \A t \in TaskIds : \A u \in TaskIds : t # u => TargetOf(t) # TargetOf(u)
    /\ \A t \in TaskIds :
          xfut[t].st = "collected" => ws[TargetOf(t)] = StrCell(OwnResult(t))
    /\ saves = 0 =>
          \A c \in DOMAIN ws :
              (\A t \in TaskIds : xfut[t].st = "collected" => TargetOf(t) # c)
              => ws[c] = disk[c]
    /\ xpc = "done" =>
          \A t \in TaskIds : ws[TargetOf(t)] = StrCell(OwnResult(t))

\* a finished run in which a task that raised and a task that returned JSON
\* both have their cells
C7_Witness ==
    /\ xpc = "done"
    /\ \E t \in TaskIds : \E u \in TaskIds :
          /\ t < u
          /\ xfut[t].exc /\ ~xfut[u].exc
          /\ ws[TargetOf(t)].s = ErrorPrefix \o ApiErrorMsg
          /\ ws[TargetOf(u)].s = <<"{", DQ, "k", DQ, ":", " ", "1", "}">>

C8_SaveState ==
    /\ saves <= 1
    /\ saves = 1 => /\ \A t \in 1..Len(xfut) : xfut[t].st = "collected"
                    /\ disk = ws
    /\ xpc = "done" => saves = 1

C8_SaveStep ==
    /\ ws' # ws =>
          /\ saves' = saves /\ disk' = disk
          /\ Cardinality({c \in DOMAIN ws : ws'[c] # ws[c]}) = 1
          /\ Cardinality({t \in 1..Len(xfut) : xfut'[t] # xfut[t]}) = 1
          /\ \A t \in 1..Len(xfut) :
                xfut'[t] # xfut[t] => xfut[t].st = "done" /\ xfut'[t].st = "collected"
    /\ saves' # saves =>
          /\ ws' = ws /\ xfut' = xfut
          /\ \A t \in 1..Len(xfut) : xfut[t].st = "collected"

\* C8: the workbook is saved exactly once per run, only after every task
\* has completed and its cell has been assigned; a step assigns one cell,
\* for one collected future, and no step both assigns a cell and saves.
C8_SavedOnceAfterAll == [](C8_SaveState) /\ [][C8_SaveStep]_vars

\* a run with several tasks, saved
C8_Witness == xpc = "done" /\ saves = 1 /\ Len(xtasks) >= 3 /\ disk # <<>>

\* C9 as claimed: without an API key no task is executed and no target cell
\* is written.
C9_AsClaimed ==
    ~api_key =>
        /\ \A t \in 1..Len(xfut) : xfut[t].st = "queued"
        /\ \A c \in DOMAIN ws : c[2] \in {3, 5} => ws[c] = NoneCell

\* C9 as amended: without an API key every task still runs; it raises in
\* load_api_key before any request is sent, its cell receives the ERROR
\* marker with that message, and the workbook is saved all the same.
C9_MissingKeyMarksCells ==
    (xpc # "off" /\ ~api_key) =>
        /\ api_calls = 0
        /\ \A t \in TaskIds :
              /\ xfut[t].st \in {"done", "collected"} =>
                    xfut[t].exc /\ xfut[t].val = MissingKeyMsg
              /\ xfut[t].st = "collected" =>
                    ws[TargetOf(t)] = StrCell(ErrorPrefix \o MissingKeyMsg)
        /\ xpc = "done" =>
              /\ saves = 1 /\ disk = ws
              /\ \A t \in TaskIds :
                    ws[TargetOf(t)] = StrCell(ErrorPrefix \o MissingKeyMsg)

\* a finished run without a key whose cells carry the marker
C9_Witness ==
    /\ xpc = "done" /\ ~api_key /\ Len(xtasks) >= 2
    /\ \A t \in TaskIds : ws[TargetOf(t)].s = ErrorPrefix \o MissingKeyMsg

(***************************************************************************)
(* C10                                                                     *)
(***************************************************************************)

HasBrace(s) == \E k \in 1..Len(s) : s[k] \in {"{", "}"}

\* nesting depth after the first k characters, a closing brace with nothing
\* open not counted
RECURSIVE DepthAfter(_, _)
DepthAfter(s, k) ==
    IF k = 0 THEN 0
    ELSE LET d == DepthAfter(s, k - 1)
         IN  IF s[k] = "{" THEN d + 1
             ELSE IF s[k] = "}" /\ d > 0 THEN d - 1
             ELSE d

\* the text has braces and they never balance: no closing brace brings the
\* depth back to zero, so the scan finds no balanced span.  (A text that
\* holds a balanced span beside unmatched braces falls under the first half
\* of the claim: the first balanced span that parses is returned.)
Unbalanced(s) ==
    /\ HasBrace(s)
    /\ \A k \in 1..Len(s) : ~(s[k] = "}" /\ DepthAfter(s, k - 1) = 1)

IsProse(s) == \A k \in 1..Len(s) : s[k] \notin {"{", "}", BQ}

\* s is the text of one JSON object
IsObjectText(s) == Loads(s).ok /\ Loads(s).val.t = "obj"

\* C10: for every text extract_first_json returns the empty string or the
\* re-serialization of a JSON object; a text with no braces and a text whose
\* braces never balance give the empty string; an object embedded in prose
\* is returned.
C10_AsClaimed ==
    jpc = "returned" =>
        /\ jout = <<>> \/ IsObjectText(jout)
        /\ ~HasBrace(jtext) => jout = <<>>
        /\ Unbalanced(jtext) => jout = <<>>
        /\ \A i \in 1..Len(jtext) : \A j \in i..Len(jtext) :
              ( /\ IsProse(SubSeq(jtext, 1, i - 1))
                /\ IsProse(SubSeq(jtext, j + 1, Len(jtext)))
                /\ jtext[i] = "{" /\ jtext[j] = "}"
                /\ IsObjectText(SubSeq(jtext, i, j)) )
              => jout = Dumps(Loads(SubSeq(jtext, i, j)).val)

====
